---- MODULE Spec2Model ----
(***************************************************************************)
(* Layered server configuration of maelstrom (src/configuration/mod.rs).   *)
(*                                                                         *)
(* One process run is modelled step by step: the environment and the       *)
(* command line are read, the settings-file path is resolved, the settings *)
(* file is loaded (or a default one is written), the three layers are      *)
(* merged, and the key file is loaded.  Texts (environment strings, YAML   *)
(* scalars) are sequences of tokens, so parsing and formatting are real    *)
(* conversions; typed values (Url, u64) are records and naturals.          *)
(***************************************************************************)
EXTENDS Naturals, Sequences, FiniteSets, TLC

VARIABLES
    pc,         \* position of the process: see PcValues
    run,        \* number of the process run (1 = first start)
    envVars,    \* the process environment: variable name -> raw value
    args,       \* the command line as structopt parses it
    fs,         \* the settings files on disk: path -> file state
    fsAtStart,  \* the settings files as this run found them
    env,        \* EnvironmentConfiguration built by this run
    cli,        \* CliConfiguration built by this run
    yaml_path,  \* the resolved settings-file path: None until resolved, then Some(path)
    yaml,       \* the YamlConfiguration handed to the merge
    layered,    \* LayeredServerConfiguration
    config,     \* ServerConfiguration
    status,     \* exit status of the process: None while it runs, then Some(code)
    report,     \* the error the run reported, as a text (NoReport when none)
    keyFault,   \* what the key file turned out to be when it was loaded
    fsLog       \* file operations of this run, in order

vars == <<pc, run, envVars, args, fs, fsAtStart, env, cli, yaml_path, yaml, layered,
          config, status, report, keyFault, fsLog>>

-----------------------------------------------------------------------------
(* Option<T> *)

None == [some |-> FALSE]

Some(x) == [some |-> TRUE, v |-> x]

(* A value not yet computed by the run. *)
Unbuilt == [built |-> FALSE]

-----------------------------------------------------------------------------
(* Bounds of the model *)

\* number of times the process is started on the same machine
MaxRuns == 2

-----------------------------------------------------------------------------
(* Program constants *)

\* Duration::from_secs(60), the built-in session lifetime
DefaultSessionSecs == 60

\* session_expiration of YamlConfiguration::default()
YamlDefaultSessionSecs == 3000

\* exit(1)
ExitFailure == 1

\* exit status of a Rust process whose main thread panics
PanicStatus == 101

\* no error reported
NoReport == <<>>

\* no key-file failure
NoFault == "none"

-----------------------------------------------------------------------------
(* url::Url *)

\* schemes for which the URL standard supplies the path "/" when it is empty
SpecialSchemes == {"http", "https", "ws", "wss", "ftp"}

Schemes == SpecialSchemes \cup {"postgres", "sqlite", "sled"}

Url(scheme, host, path) == [scheme |-> scheme, host |-> host, path |-> path]

(* Url::parse on a text <<scheme, "://", host>> or <<scheme, "://", host, path>>.
   Anything else (no scheme, so a relative URL without a base) is an error,
   returned as None. *)
UrlParse(t) ==
    IF /\ Len(t) \in {3, 4}
       /\ t[1] \in Schemes
       /\ t[2] = "://"
       /\ t[3] \notin {"", "://", "/"}
       /\ (Len(t) = 4 => t[4] = "/")
    THEN Some(Url(t[1], t[3],
                  IF Len(t) = 4 \/ t[1] \in SpecialSchemes THEN "/" ELSE ""))
    ELSE None

(* Url::as_str, which is what serde writes for a Url. *)
UrlStr(u) ==
    <<u.scheme, "://", u.host>> \o (IF u.path = "" THEN <<>> ELSE <<u.path>>)

-----------------------------------------------------------------------------
(* u64 *)

DigitChars == <<"0", "1", "2", "3", "4", "5", "6", "7", "8", "9">>

IsDigit(c) == \E d \in 1..Len(DigitChars) : DigitChars[d] = c

DigitValue(c) == (CHOOSE d \in 1..Len(DigitChars) : DigitChars[d] = c) - 1

RECURSIVE DigitsValue(_)
DigitsValue(t) ==
    IF Len(t) = 0 THEN 0
    ELSE 10 * DigitsValue(SubSeq(t, 1, Len(t) - 1)) + DigitValue(t[Len(t)])

(* str::parse::<u64>: a non-empty run of decimal digits.  The texts of this
   model have at most four digits, so the u64 range is never exceeded. *)
ParseU64(t) ==
    IF Len(t) > 0 /\ \A i \in 1..Len(t) : IsDigit(t[i])
    THEN Some(DigitsValue(t))
    ELSE None

RECURSIVE U64StrReversed(_)
(* Faulty variant of U64Str: the digits come out least significant first. *)
U64StrReversed(n) ==
    IF n < 10 THEN <<DigitChars[n + 1]>>
    ELSE <<DigitChars[(n % 10) + 1]>> \o U64StrReversed(n \div 10)

RECURSIVE U64Str(_)
(* The decimal text of a u64 (Display / serde). *)
U64Str(n) ==
    IF n < 10 THEN <<DigitChars[n + 1]>>
    ELSE Append(U64Str(n \div 10), DigitChars[(n % 10) + 1])

-----------------------------------------------------------------------------
(* EnvironmentConfiguration *)

EnvNames == {"MAELSTROM_SERVER_ADDRESS", "MAELSTROM_DATABASE_ADDRESS",
             "MAELSTROM_AUTHKEY_PATH", "MAELSTROM_SESSION_EXPIRATION",
             "MAELSTROM_CONF_PATH"}

\* std::env::var gives Err for a variable that is not set
Unset == [set |-> FALSE]

Str(t) == [set |-> TRUE, s |-> t]

(* Faulty variant of EnvUrl: a text that does not parse is taken as a host name
   instead of being dropped. *)
EnvUrlLenient(raw) ==
    IF ~raw.set THEN None
    ELSE IF UrlParse(raw.s).some THEN UrlParse(raw.s)
    ELSE Some(Url("https", raw.s[1], "/"))

(* match std::env::var(..) { Ok(v) => match Url::parse(&v) { Ok(v) => Some(v),
   Err(_) => None }, Err(_) => None } *)
EnvUrl(raw) == IF raw.set THEN UrlParse(raw.s) ELSE None

(* match std::env::var(..) { Ok(v) => Some(PathBuf::from(&v)), Err(_) => None }:
   a path is the one-token text itself. *)
EnvPath(raw) == IF raw.set THEN Some(raw.s[1]) ELSE None

(* match std::env::var(..) { Ok(v) => match v.parse() { Ok(v) => Some(v),
   Err(_) => None }, Err(_) => None } *)
EnvU64(raw) == IF raw.set THEN ParseU64(raw.s) ELSE None

EnvironmentConfigurationNew(ev) ==
    [server_addr        |-> EnvUrl(ev["MAELSTROM_SERVER_ADDRESS"]),
     database_addr      |-> EnvUrl(ev["MAELSTROM_DATABASE_ADDRESS"]),
     authkey_path       |-> EnvPath(ev["MAELSTROM_AUTHKEY_PATH"]),
     session_expiration |-> EnvU64(ev["MAELSTROM_SESSION_EXPIRATION"]),
     configuration_path |-> EnvPath(ev["MAELSTROM_CONF_PATH"])]

-----------------------------------------------------------------------------
(* YamlConfiguration and its YAML document.  A document is a sequence of
   lines [k |-> key, v |-> scalar text]. *)

YamlKeys == <<"server_addr", "database_addr", "authkey_path", "session_expiration">>

\* the YAML null scalar, which serde_yaml writes for Option::None
YamlNull == <<"~">>

\* a line that is not YAML at all
BrokenLine == [k |-> "{{", v |-> <<>>]

YamlConfigurationDefault ==
    [server_addr        |-> UrlParse(<<"https", "://", "example.net">>),
     database_addr      |-> UrlParse(<<"postgres", "://", "db.example.net">>),
     authkey_path       |-> Some("/etc/maelstrom/authkey.pem"),
     session_expiration |-> Some(YamlDefaultSessionSecs)]

(* serde_yaml::to_string(self): one line per field, in declaration order. *)
ToYaml(y) ==
    << [k |-> "server_addr",
        v |-> IF y.server_addr.some THEN UrlStr(y.server_addr.v) ELSE YamlNull],
       [k |-> "database_addr",
        v |-> IF y.database_addr.some THEN UrlStr(y.database_addr.v) ELSE YamlNull],
       [k |-> "authkey_path",
        v |-> IF y.authkey_path.some THEN <<y.authkey_path.v>> ELSE YamlNull],
       [k |-> "session_expiration",
        v |-> IF y.session_expiration.some THEN U64Str(y.session_expiration.v)
              ELSE YamlNull] >>

LinesOf(doc, key) == SelectSeq(doc, LAMBDA l : l.k = key)

\* the document is YAML and holds no key of the record twice
YamlWellFormed(doc) ==
    /\ Len(doc) > 0
    /\ \A i \in 1..Len(doc) : doc[i] # BrokenLine
    /\ \A j \in 1..Len(YamlKeys) : Len(LinesOf(doc, YamlKeys[j])) <= 1

\* the scalar of an optional field: a missing key and a null are both None
YamlScalar(doc, key) ==
    IF Len(LinesOf(doc, key)) = 0 \/ LinesOf(doc, key)[1].v = YamlNull
    THEN None
    ELSE Some(LinesOf(doc, key)[1].v)

YamlUrlOk(doc, key) ==
    YamlScalar(doc, key).some => UrlParse(YamlScalar(doc, key).v).some

YamlU64Ok(doc, key) ==
    YamlScalar(doc, key).some => ParseU64(YamlScalar(doc, key).v).some

YamlPathOk(doc, key) ==
    YamlScalar(doc, key).some => Len(YamlScalar(doc, key).v) = 1

YamlField(doc, key, parsed) ==
    IF YamlScalar(doc, key).some THEN parsed ELSE None

(* serde_yaml::from_reader::<YamlConfiguration>: Ok(record) or Err. *)
FromYaml(doc) ==
    IF /\ YamlWellFormed(doc)
       /\ YamlUrlOk(doc, "server_addr")
       /\ YamlUrlOk(doc, "database_addr")
       /\ YamlPathOk(doc, "authkey_path")
       /\ YamlU64Ok(doc, "session_expiration")
    THEN [ok |-> TRUE,
          v  |-> [server_addr |->
                      YamlField(doc, "server_addr",
                                UrlParse(YamlScalar(doc, "server_addr").v)),
                  database_addr |->
                      YamlField(doc, "database_addr",
                                UrlParse(YamlScalar(doc, "database_addr").v)),
                  authkey_path |->
                      YamlField(doc, "authkey_path",
                                Some(YamlScalar(doc, "authkey_path").v[1])),
                  session_expiration |->
                      YamlField(doc, "session_expiration",
                                ParseU64(YamlScalar(doc, "session_expiration").v))]]
    ELSE [ok |-> FALSE]

-----------------------------------------------------------------------------
(* YamlConfiguration::save and the settings files on disk *)

NotFound == [kind |-> "NotFound"]

\* the path exists but File::open fails with another error kind
Denied == [kind |-> "PermissionDenied"]

File(doc) == [kind |-> "File", doc |-> doc]

LogEntry(op, path, ok) == [run |-> run, op |-> op, path |-> path, ok |-> ok]

(* What write_all leaves behind when it fails: fewer lines than the document. *)
PartialWrites(doc) == {SubSeq(doc, 1, n) : n \in 0..(Len(doc) - 1)}

-----------------------------------------------------------------------------
(* LayeredServerConfiguration::new, lines 173-182: the settings-file path *)

(* Faulty variant of ConfigurationPath: the command line is asked first. *)
ConfigurationPathCliFirst(e, c) ==
    IF c.configuration_path.some THEN c.configuration_path
    ELSE e.configuration_path

ConfigurationPath(e, c) ==
    IF e.configuration_path.some THEN e.configuration_path
    ELSE c.configuration_path

-----------------------------------------------------------------------------
(* LayeredServerConfiguration::new, lines 213-263: the merge *)

Duration(secs) == [secs |-> secs]

(* Faulty variant of Layer: the command line is asked before the environment. *)
LayerCliFirst(e, c, y) == IF c.some THEN c ELSE IF e.some THEN e ELSE y

\* match env.f { Some(v) => v, None => match cli.f { Some(v) => v,
\*               None => match yaml.f { .. } } }
Layer(e, c, y) == IF e.some THEN e ELSE IF c.some THEN c ELSE y

RequiredReport(field) == <<"Option", field, "is required!">>

(* Faulty variant of Merge: the key path is looked at before the addresses. *)
MergeKeyPathFirst(e, c, y) ==
    LET s == Layer(e.server_addr, c.server_addr, y.server_addr)
        d == Layer(e.database_addr, c.database_addr, y.database_addr)
        k == Layer(e.authkey_path, c.authkey_path, y.authkey_path)
        x == Layer(e.session_expiration, c.session_expiration, y.session_expiration)
    IN  IF ~k.some THEN [ok |-> FALSE, report |-> RequiredReport("authkey_path")]
        ELSE IF ~s.some THEN [ok |-> FALSE, report |-> RequiredReport("server_addr")]
        ELSE IF ~d.some THEN [ok |-> FALSE, report |-> RequiredReport("database_addr")]
        ELSE [ok |-> TRUE,
              v  |-> [server_addr        |-> s.v,
                      database_addr      |-> d.v,
                      authkey_path       |-> k.v,
                      session_expiration |->
                          Duration(IF x.some THEN x.v ELSE DefaultSessionSecs)]]

(* Faulty variant of Merge: a lifetime in no layer gets the lifetime of the
   default settings file instead of the built-in one. *)
MergeLifetimeOfFile(e, c, y) ==
    LET s == Layer(e.server_addr, c.server_addr, y.server_addr)
        d == Layer(e.database_addr, c.database_addr, y.database_addr)
        k == Layer(e.authkey_path, c.authkey_path, y.authkey_path)
        x == Layer(e.session_expiration, c.session_expiration, y.session_expiration)
    IN  IF ~s.some THEN [ok |-> FALSE, report |-> RequiredReport("server_addr")]
        ELSE IF ~d.some THEN [ok |-> FALSE, report |-> RequiredReport("database_addr")]
        ELSE IF ~k.some THEN [ok |-> FALSE, report |-> RequiredReport("authkey_path")]
        ELSE [ok |-> TRUE,
              v  |-> [server_addr        |-> s.v,
                      database_addr      |-> d.v,
                      authkey_path       |-> k.v,
                      session_expiration |->
                          Duration(IF x.some THEN x.v ELSE YamlDefaultSessionSecs)]]

(* The struct expression evaluates its fields in the order written, and the
   first required field that no layer holds ends the process. *)
Merge(e, c, y) ==
    LET s == Layer(e.server_addr, c.server_addr, y.server_addr)
        d == Layer(e.database_addr, c.database_addr, y.database_addr)
        k == Layer(e.authkey_path, c.authkey_path, y.authkey_path)
        x == Layer(e.session_expiration, c.session_expiration, y.session_expiration)
    IN  IF ~s.some THEN [ok |-> FALSE, report |-> RequiredReport("server_addr")]
        ELSE IF ~d.some THEN [ok |-> FALSE, report |-> RequiredReport("database_addr")]
        ELSE IF ~k.some THEN [ok |-> FALSE, report |-> RequiredReport("authkey_path")]
        ELSE [ok |-> TRUE,
              v  |-> [server_addr        |-> s.v,
                      database_addr      |-> d.v,
                      authkey_path       |-> k.v,
                      session_expiration |->
                          Duration(IF x.some THEN x.v ELSE DefaultSessionSecs)]]

-----------------------------------------------------------------------------
(* The inputs of a run *)

EnvPathName == "/env/maelstrom.yml"

CliPathName == "/cli/maelstrom.yml"

Paths == {EnvPathName, CliPathName}

\* a relative URL without a base: Url::parse fails on it
MalformedUrlText == <<"example.org/maelstrom">>

\* not an integer: str::parse::<u64> fails on it
MalformedU64Text == <<"1", "h">>

EnvDomain ==
    [n \in EnvNames |->
        CASE n = "MAELSTROM_SERVER_ADDRESS" ->
                 {Unset, Str(<<"https", "://", "env.example.org">>), Str(MalformedUrlText)}
          [] n = "MAELSTROM_DATABASE_ADDRESS" ->
                 {Unset, Str(<<"postgres", "://", "db.env.example.org">>), Str(MalformedUrlText)}
          [] n = "MAELSTROM_AUTHKEY_PATH" ->
                 {Unset, Str(<<"/env/authkey.pem">>)}
          [] n = "MAELSTROM_SESSION_EXPIRATION" ->
                 {Unset, Str(<<"1", "2", "0">>), Str(MalformedU64Text)}
          [] n = "MAELSTROM_CONF_PATH" ->
                 {Unset, Str(<<EnvPathName>>)}]

Environments == {ev \in [EnvNames -> UNION {EnvDomain[n] : n \in EnvNames}] :
                    \A n \in EnvNames : ev[n] \in EnvDomain[n]}

\* the variables whose value fails to parse
Malformed(ev) == {n \in EnvNames : ev[n] \in {Str(MalformedUrlText), Str(MalformedU64Text)}}

WellFormedEnvironments == {ev \in Environments : Malformed(ev) = {}}

CommandLines ==
    [server_addr        : {None, UrlParse(<<"https", "://", "cli.example.org">>)},
     database_addr      : {None, UrlParse(<<"sqlite", "://", "db.cli.example.org", "/">>)},
     authkey_path       : {None, Some("/cli/authkey.pem")},
     session_expiration : {None, Some(240)},
     configuration_path : {None, Some(CliPathName)}]

\* a settings file an operator wrote by hand, with every key
HandWritten ==
    << [k |-> "server_addr",        v |-> <<"https", "://", "file.example.org", "/">>],
       [k |-> "database_addr",      v |-> <<"sled", "://", "db.file.example.org">>],
       [k |-> "authkey_path",       v |-> <<"/file/authkey.pem">>],
       [k |-> "session_expiration", v |-> <<"4", "8", "0">>] >>

Keep(doc, keys) == SelectSeq(doc, LAMBDA l : l.k \in keys)

\* a key the record does not have: serde skips it
UnknownLine == [k |-> "log_level", v |-> <<"debug">>]

AllKeys == {"server_addr", "database_addr", "authkey_path", "session_expiration"}

\* documents that parse: every key, all but one key, only the key path and the
\* lifetime, no key of the record, and a null server address
ValidDocuments ==
    {HandWritten}
    \cup {Keep(HandWritten, AllKeys \ {key}) : key \in AllKeys}
    \cup {Keep(HandWritten, {"authkey_path", "session_expiration"}),
          <<UnknownLine>>,
          <<[k |-> "server_addr", v |-> YamlNull]>>
              \o Keep(HandWritten, AllKeys \ {"server_addr", "session_expiration"})}

\* documents that do not parse: not YAML, and a lifetime that is no integer
InvalidDocuments ==
    {<<BrokenLine>>,
     Append(Keep(HandWritten, {"server_addr"}),
            [k |-> "session_expiration", v |-> MalformedU64Text])}

Documents == ValidDocuments \cup InvalidDocuments

FileStates == {NotFound, Denied} \cup {File(doc) : doc \in Documents}

\* at most one settings file is on disk before the first run
Disks == {f \in [Paths -> FileStates] : \E p \in Paths : f[p] = NotFound}

-----------------------------------------------------------------------------
(* The process *)

PcValues == {"start", "layers", "path", "yaml", "layered", "done", "exited", "panicked"}

Terminated == pc \in {"done", "exited", "panicked"}

InitWith(evs, cls, disks) ==
    /\ pc = "start"
    /\ run = 1
    /\ envVars \in evs
    /\ args \in cls
    /\ fs \in disks
    /\ fsAtStart = fs
    /\ env = Unbuilt
    /\ cli = Unbuilt
    /\ yaml_path = None
    /\ yaml = Unbuilt
    /\ layered = Unbuilt
    /\ config = Unbuilt
    /\ status = None
    /\ report = NoReport
    /\ keyFault = NoFault
    /\ fsLog = <<>>

Init == InitWith(Environments, CommandLines, Disks)

(* exit(1) after error!(..) *)
Exit(message) ==
    /\ pc' = "exited"
    /\ status' = Some(ExitFailure)
    /\ report' = message

(* lines 171-172: EnvironmentConfiguration::new() and CliConfiguration::from_args() *)
ReadLayers ==
    /\ pc = "start"
    /\ env' = EnvironmentConfigurationNew(envVars)
    /\ cli' = args
    /\ pc' = "layers"
    /\ UNCHANGED <<run, envVars, args, fsAtStart, fs, yaml_path, yaml, layered, config,
                   status, report, keyFault, fsLog>>

(* lines 173-176 *)
ResolvePath ==
    /\ pc = "layers"
    /\ ConfigurationPath(env, cli).some
    /\ yaml_path' = ConfigurationPath(env, cli)
    /\ pc' = "path"
    /\ UNCHANGED <<run, envVars, args, fsAtStart, fs, env, cli, yaml, layered, config,
                   status, report, keyFault, fsLog>>

(* lines 177-180 *)
NoConfigurationPath ==
    /\ pc = "layers"
    /\ ~ConfigurationPath(env, cli).some
    /\ Exit(<<"No configuration path specified. This argument is required!">>)
    /\ UNCHANGED <<run, envVars, args, fsAtStart, fs, env, cli, yaml_path, yaml, layered,
                   config, keyFault, fsLog>>

(* lines 183-187: the file opens and parses *)
LoadYaml ==
    /\ pc = "path"
    /\ fs[yaml_path.v].kind = "File"
    /\ FromYaml(fs[yaml_path.v].doc).ok
    /\ yaml' = FromYaml(fs[yaml_path.v].doc).v
    /\ fsLog' = Append(fsLog, LogEntry("open", yaml_path.v, TRUE))
    /\ pc' = "yaml"
    /\ UNCHANGED <<run, envVars, args, fsAtStart, fs, env, cli, yaml_path, layered, config,
                   status, report, keyFault>>

(* Faulty variant of LoadYamlUnreadable: a file that does not parse is treated
   as a missing one, overwritten with the default, and the run goes on. *)
LoadYamlUnreadableOverwritten ==
    /\ pc = "path"
    /\ fs[yaml_path.v].kind = "File"
    /\ ~FromYaml(fs[yaml_path.v].doc).ok
    /\ fs' = [fs EXCEPT ![yaml_path.v] = File(ToYaml(YamlConfigurationDefault))]
    /\ yaml' = YamlConfigurationDefault
    /\ fsLog' = fsLog \o <<LogEntry("open", yaml_path.v, TRUE),
                           LogEntry("create", yaml_path.v, TRUE),
                           LogEntry("write", yaml_path.v, TRUE)>>
    /\ pc' = "yaml"
    /\ UNCHANGED <<run, envVars, args, fsAtStart, env, cli, yaml_path, layered, config,
                   status, report, keyFault>>

(* lines 183-191: the file opens and does not parse *)
LoadYamlUnreadable ==
    /\ pc = "path"
    /\ fs[yaml_path.v].kind = "File"
    /\ ~FromYaml(fs[yaml_path.v].doc).ok
    /\ fsLog' = Append(fsLog, LogEntry("open", yaml_path.v, TRUE))
    /\ Exit(<<"Unable to read yaml file.">>)
    /\ UNCHANGED <<run, envVars, args, fsAtStart, fs, env, cli, yaml_path, yaml, layered,
                   config, keyFault>>

(* lines 207-210: File::open fails with a kind other than NotFound *)
LoadYamlOtherError ==
    /\ pc = "path"
    /\ fs[yaml_path.v].kind \notin {"File", "NotFound"}
    /\ fsLog' = Append(fsLog, LogEntry("open", yaml_path.v, FALSE))
    /\ Exit(<<"Unable to handle error", fs[yaml_path.v].kind>>)
    /\ UNCHANGED <<run, envVars, args, fsAtStart, fs, env, cli, yaml_path, yaml, layered,
                   config, keyFault>>

(* Faulty variant of CreateDefaultYaml: the default is written, and an empty
   record is handed to the merge in its place. *)
CreateDefaultYamlUnread ==
    /\ pc = "path"
    /\ fs[yaml_path.v].kind = "NotFound"
    /\ fs' = [fs EXCEPT ![yaml_path.v] = File(ToYaml(YamlConfigurationDefault))]
    /\ yaml' = [server_addr |-> None, database_addr |-> None,
                authkey_path |-> None, session_expiration |-> None]
    /\ fsLog' = fsLog \o <<LogEntry("open", yaml_path.v, FALSE),
                           LogEntry("create", yaml_path.v, TRUE),
                           LogEntry("write", yaml_path.v, TRUE)>>
    /\ pc' = "yaml"
    /\ UNCHANGED <<run, envVars, args, fsAtStart, env, cli, yaml_path, layered, config,
                   status, report, keyFault>>

(* lines 195-200 with save, lines 150-160: the default is written and returned *)
CreateDefaultYaml ==
    /\ pc = "path"
    /\ fs[yaml_path.v].kind = "NotFound"
    /\ fs' = [fs EXCEPT ![yaml_path.v] = File(ToYaml(YamlConfigurationDefault))]
    /\ yaml' = YamlConfigurationDefault
    /\ fsLog' = fsLog \o <<LogEntry("open", yaml_path.v, FALSE),
                           LogEntry("create", yaml_path.v, TRUE),
                           LogEntry("write", yaml_path.v, TRUE)>>
    /\ pc' = "yaml"
    /\ UNCHANGED <<run, envVars, args, fsAtStart, env, cli, yaml_path, layered, config,
                   status, report, keyFault>>

(* Faulty variant of CreateDefaultYamlOpenFails: the error of save is dropped
   and the run goes on with the default. *)
CreateDefaultYamlOpenIgnored ==
    /\ pc = "path"
    /\ fs[yaml_path.v].kind = "NotFound"
    /\ yaml' = YamlConfigurationDefault
    /\ fsLog' = fsLog \o <<LogEntry("open", yaml_path.v, FALSE),
                           LogEntry("create", yaml_path.v, FALSE)>>
    /\ pc' = "yaml"
    /\ UNCHANGED <<run, envVars, args, fsAtStart, fs, env, cli, yaml_path, layered,
                   config, status, report, keyFault>>

(* lines 195-204 with save, lines 156 and 161-164: the file cannot be created *)
CreateDefaultYamlOpenFails ==
    /\ pc = "path"
    /\ fs[yaml_path.v].kind = "NotFound"
    /\ fsLog' = fsLog \o <<LogEntry("open", yaml_path.v, FALSE),
                           LogEntry("create", yaml_path.v, FALSE)>>
    /\ Exit(<<"Unable to write default yaml file. This is required!",
              "Unable to open file for writing.">>)
    /\ UNCHANGED <<run, envVars, args, fsAtStart, fs, env, cli, yaml_path, yaml, layered,
                   config, keyFault>>

(* lines 195-204 with save, lines 156-158: the file is created, write_all fails *)
CreateDefaultYamlWriteFails ==
    /\ pc = "path"
    /\ fs[yaml_path.v].kind = "NotFound"
    /\ \E part \in PartialWrites(ToYaml(YamlConfigurationDefault)) :
           fs' = [fs EXCEPT ![yaml_path.v] = File(part)]
    /\ fsLog' = fsLog \o <<LogEntry("open", yaml_path.v, FALSE),
                           LogEntry("create", yaml_path.v, TRUE),
                           LogEntry("write", yaml_path.v, FALSE)>>
    /\ Exit(<<"Unable to write default yaml file. This is required!", "write_all">>)
    /\ UNCHANGED <<run, envVars, args, fsAtStart, env, cli, yaml_path, yaml, layered,
                   config, keyFault>>

(* lines 213-263, every required field found *)
MergeLayers ==
    /\ pc = "yaml"
    /\ Merge(env, cli, yaml).ok
    /\ layered' = Merge(env, cli, yaml).v
    /\ pc' = "layered"
    /\ UNCHANGED <<run, envVars, args, fsAtStart, fs, env, cli, yaml_path, yaml, config,
                   status, report, keyFault, fsLog>>

(* lines 213-252, a required field in no layer *)
MergeMissing ==
    /\ pc = "yaml"
    /\ ~Merge(env, cli, yaml).ok
    /\ Exit(Merge(env, cli, yaml).report)
    /\ UNCHANGED <<run, envVars, args, fsAtStart, fs, env, cli, yaml_path, yaml, layered,
                   config, keyFault, fsLog>>

-----------------------------------------------------------------------------
(* ServerConfiguration::new, lines 267-300: the key file *)

EncodingKey(path) == [pem |-> path]

ServerConfigurationOf(l) ==
    [server_addr        |-> l.server_addr,
     database_addr      |-> l.database_addr,
     authkey            |-> EncodingKey(l.authkey_path),
     session_expiration |-> l.session_expiration]

KeyLog(ok) == Append(fsLog, LogEntry("open", layered.authkey_path, ok))

(* lines 273 and 293-296: File::open fails *)
LoadKeyOpenFails ==
    /\ pc = "layered"
    /\ keyFault' = "open"
    /\ fsLog' = KeyLog(FALSE)
    /\ Exit(<<"Unable to open authkey file.">>)
    /\ UNCHANGED <<run, envVars, args, fsAtStart, fs, env, cli, yaml_path, yaml,
                   layered, config>>

(* lines 275-278: metadata() fails and the arm is unimplemented!(), a panic *)
LoadKeyMetadataFails ==
    /\ pc = "layered"
    /\ keyFault' = "metadata"
    /\ fsLog' = KeyLog(TRUE)
    /\ pc' = "panicked"
    /\ status' = Some(PanicStatus)
    /\ report' = <<"not implemented">>
    /\ UNCHANGED <<run, envVars, args, fsAtStart, fs, env, cli, yaml_path, yaml,
                   layered, config>>

(* lines 279 and 287-290: read_to_end fails *)
LoadKeyReadFails ==
    /\ pc = "layered"
    /\ keyFault' = "read"
    /\ fsLog' = KeyLog(TRUE)
    /\ Exit(<<"Unable to read key file.">>)
    /\ UNCHANGED <<run, envVars, args, fsAtStart, fs, env, cli, yaml_path, yaml,
                   layered, config>>

(* lines 280-285: EncodingKey::from_ec_pem fails *)
LoadKeyDecodeFails ==
    /\ pc = "layered"
    /\ keyFault' = "decode"
    /\ fsLog' = KeyLog(TRUE)
    /\ Exit(<<"Unable to parse supplied key.">>)
    /\ UNCHANGED <<run, envVars, args, fsAtStart, fs, env, cli, yaml_path, yaml,
                   layered, config>>

(* lines 269-299, the key decodes *)
LoadKey ==
    /\ pc = "layered"
    /\ fsLog' = KeyLog(TRUE)
    /\ config' = ServerConfigurationOf(layered)
    /\ pc' = "done"
    /\ UNCHANGED <<run, envVars, args, fsAtStart, fs, env, cli, yaml_path, yaml,
                   layered, status, report, keyFault>>

(* The process is started again, with the same environment and command line,
   on the disk the earlier run left. *)
Restart ==
    /\ Terminated
    /\ run < MaxRuns
    /\ run' = run + 1
    /\ pc' = "start"
    /\ fsAtStart' = fs
    /\ env' = Unbuilt
    /\ cli' = Unbuilt
    /\ yaml_path' = None
    /\ yaml' = Unbuilt
    /\ layered' = Unbuilt
    /\ config' = Unbuilt
    /\ status' = None
    /\ report' = NoReport
    /\ keyFault' = NoFault
    /\ UNCHANGED <<envVars, args, fs, fsLog>>

Next ==
    \/ ReadLayers
    \/ ResolvePath
    \/ NoConfigurationPath
    \/ LoadYaml
    \/ LoadYamlUnreadable
    \/ LoadYamlOtherError
    \/ CreateDefaultYaml
    \/ CreateDefaultYamlOpenFails
    \/ CreateDefaultYamlWriteFails
    \/ MergeLayers
    \/ MergeMissing
    \/ LoadKeyOpenFails
    \/ LoadKeyMetadataFails
    \/ LoadKeyReadFails
    \/ LoadKeyDecodeFails
    \/ LoadKey

(* One start of the process, over every combination of inputs. *)
Spec == Init /\ [][Next]_vars

\* the environments that set at most the settings-file path and the lifetime
RerunEnvironments ==
    {ev \in WellFormedEnvironments :
        \A n \in EnvNames \ {"MAELSTROM_CONF_PATH", "MAELSTROM_SESSION_EXPIRATION"} :
            ev[n] = Unset}

RerunDisks ==
    {f \in Disks : \A p \in Paths : f[p] \in {NotFound, Denied, File(HandWritten)}}

InitRerun == InitWith(RerunEnvironments, CommandLines, RerunDisks)

NextRerun == Next \/ Restart

(* The process started up to MaxRuns times on the same disk. *)
SpecRerun == InitRerun /\ [][NextRerun]_vars

-----------------------------------------------------------------------------
(* Vocabulary of the properties *)

RequiredFields == <<"server_addr", "database_addr", "authkey_path">>

\* the three layers, highest priority first
LayerRecords == <<env, cli, yaml>>

\* the step at lines 173-182 has been taken in this run
PathActed == env # Unbuilt /\ pc # "layers"

\* the step at lines 183-212 has been taken in this run
LoadActed == yaml_path.some /\ pc # "path"

\* the step at lines 213-263 has been taken in this run
MergeActed == yaml # Unbuilt /\ pc # "yaml"

AbsentEverywhere(f) == \A i \in 1..3 : ~LayerRecords[i][f].some

\* the resolved value of a field, the lifetime in seconds
Resolved(f) == IF f = "session_expiration" THEN layered[f].secs ELSE layered[f]

\* the file operations of this run on the settings files
SettingsOps(op, ok) ==
    {i \in DOMAIN fsLog : /\ fsLog[i].run = run
                          /\ fsLog[i].path \in Paths
                          /\ fsLog[i].op = op
                          /\ fsLog[i].ok = ok}

Touched == SettingsOps("create", TRUE) \cup SettingsOps("create", FALSE)
           \cup SettingsOps("write", TRUE) \cup SettingsOps("write", FALSE)

\* this run wrote the default file at p
SavedNow(p) == \E i \in SettingsOps("write", TRUE) : fsLog[i].path = p

\* an earlier run wrote the default file at p
SavedBefore(p) ==
    \E i \in DOMAIN fsLog :
        fsLog[i].run < run /\ fsLog[i].op = "write" /\ fsLog[i].ok /\ fsLog[i].path = p

NothingBuilt == yaml = Unbuilt /\ layered = Unbuilt /\ config = Unbuilt

\* the default settings record, value by value
DefaultRecord ==
    [server_addr        |-> Some(Url("https", "example.net", "/")),
     database_addr      |-> Some(Url("postgres", "db.example.net", "")),
     authkey_path       |-> Some("/etc/maelstrom/authkey.pem"),
     session_expiration |-> Some(3000)]

-----------------------------------------------------------------------------
(* C1: whenever resolution succeeds, each resolved field (server address,
   database address, key path, session lifetime) is the value held by the
   first layer, scanning environment, command line, file, in which the field
   is present, whatever the later layers hold. *)
C1_FirstPresentLayerWins ==
    layered # Unbuilt =>
        \A f \in AllKeys : \A i \in 1..3 :
            (/\ LayerRecords[i][f].some
             /\ \A j \in 1..(i - 1) : ~LayerRecords[j][f].some)
            => Resolved(f) = LayerRecords[i][f].v

\* resolution succeeded with the server address in all three layers, the
\* database address in the command line and the file, the key path in the file
C1_Witness ==
    /\ layered # Unbuilt
    /\ env.server_addr.some /\ cli.server_addr.some /\ yaml.server_addr.some
    /\ ~env.database_addr.some /\ cli.database_addr.some /\ yaml.database_addr.some
    /\ ~env.authkey_path.some /\ ~cli.authkey_path.some /\ yaml.authkey_path.some

(* C2, as stated: every required field that is absent in all three layers is
   the field the fatal error names. *)
C2_EveryMissingFieldNamed ==
    \A n \in 1..3 :
        (MergeActed /\ AbsentEverywhere(RequiredFields[n]))
        => /\ status = Some(1)
           /\ layered = Unbuilt /\ config = Unbuilt
           /\ report = <<"Option", RequiredFields[n], "is required!">>

(* C2, amended: when some required field is absent in all three layers the
   process exits with status 1, no configuration is built, and the error names
   one field: the first, in the order server address, database address, key
   path, that is absent in all three layers. *)
C2_FirstMissingFieldNamed ==
    (MergeActed /\ \E n \in 1..3 : AbsentEverywhere(RequiredFields[n]))
    => /\ status = Some(1)
       /\ layered = Unbuilt /\ config = Unbuilt
       /\ \E n \in 1..3 :
            /\ AbsentEverywhere(RequiredFields[n])
            /\ \A m \in 1..(n - 1) : ~AbsentEverywhere(RequiredFields[m])
            /\ report = <<"Option", RequiredFields[n], "is required!">>

\* the merge ended a run in which the database address and the key path are
\* in no layer and the server address is in one
C2_Witness ==
    /\ MergeActed
    /\ pc = "exited"
    /\ ~AbsentEverywhere("server_addr")
    /\ AbsentEverywhere("database_addr")
    /\ AbsentEverywhere("authkey_path")

(* C3: when the lifetime is absent in all three layers and every required
   field is present in some layer, the merge succeeds, without a fatal error,
   and the resolved lifetime is 60 seconds. *)
C3_LifetimeDefaultsTo60 ==
    (/\ MergeActed
     /\ AbsentEverywhere("session_expiration")
     /\ \A n \in 1..3 : ~AbsentEverywhere(RequiredFields[n]))
    => /\ layered # Unbuilt
       /\ layered.session_expiration = [secs |-> 60]
       /\ pc = "layered" => (status = None /\ report = <<>>)

\* the merge succeeded with the lifetime in no layer
C3_Witness ==
    /\ MergeActed
    /\ AbsentEverywhere("session_expiration")
    /\ pc = "layered"

\* environment: only the database address; command line: server address, key
\* path and settings path; no file at that path when the run started
ScenarioInputs ==
    /\ envVars = [n \in EnvNames |->
                     IF n = "MAELSTROM_DATABASE_ADDRESS"
                     THEN Str(<<"postgres", "://", "db.env.example.org">>)
                     ELSE Unset]
    /\ args = [server_addr        |-> Some(Url("https", "cli.example.org", "/")),
               database_addr      |-> None,
               authkey_path       |-> Some("/cli/authkey.pem"),
               session_expiration |-> None,
               configuration_path |-> Some(CliPathName)]
    /\ fsAtStart[CliPathName] = NotFound

ScenarioResult(secs) ==
    [server_addr        |-> Url("https", "cli.example.org", "/"),
     database_addr      |-> Url("postgres", "db.env.example.org", ""),
     authkey_path       |-> "/cli/authkey.pem",
     session_expiration |-> [secs |-> secs]]

(* C4, as stated: in the scenario the merge yields the server address and key
   path of the command line, the database address of the environment, and a
   lifetime of 60 seconds. *)
C4_ScenarioLifetime60 ==
    (ScenarioInputs /\ MergeActed) => layered = ScenarioResult(60)

(* C4, amended: in the scenario, once the default file is written it is on
   disk at the resolved path, and the merge yields the server address and key
   path of the command line, the database address of the environment, and a
   lifetime of 3000 seconds, the lifetime of the default record. *)
C4_ScenarioLifetime3000 ==
    (ScenarioInputs /\ yaml # Unbuilt)
    => /\ fs[CliPathName] = File(ToYaml(DefaultRecord))
       /\ SavedNow(CliPathName)
       /\ MergeActed => layered = ScenarioResult(3000)

\* the scenario, after the merge
C4_Witness == ScenarioInputs /\ pc = "layered" /\ SavedNow(CliPathName)

(* C5: the settings-file path is the environment's when the environment has
   one, otherwise the command line's; when neither has one the process exits
   with status 1 reporting the missing path, before any settings file is
   opened, created or written and before anything is loaded or merged. *)
C5_SettingsPath ==
    /\ yaml_path.some =>
          yaml_path.v = IF envVars["MAELSTROM_CONF_PATH"].set
                        THEN envVars["MAELSTROM_CONF_PATH"].s[1]
                        ELSE args.configuration_path.v
    /\ (/\ PathActed
        /\ ~envVars["MAELSTROM_CONF_PATH"].set
        /\ ~args.configuration_path.some)
       => /\ status = Some(1)
          /\ report = <<"No configuration path specified. This argument is required!">>
          /\ yaml_path = None
          /\ \A i \in DOMAIN fsLog : fsLog[i].run # run
          /\ fs = fsAtStart
          /\ NothingBuilt

\* a run in which neither the environment nor the command line names a
\* settings file has ended at the path step
C5_Witness ==
    /\ PathActed
    /\ ~envVars["MAELSTROM_CONF_PATH"].set
    /\ ~args.configuration_path.some
    /\ pc = "exited"

(* C6: when the file at the resolved path does not parse, or cannot be opened
   for a reason other than not existing, the process exits with status 1 and
   the matching report; nothing is created or written, the disk is as the run
   found it, and no layer, merge result or configuration is built. *)
C6_UnreadableFileIsFatal ==
    (/\ LoadActed
     /\ \/ fsAtStart[yaml_path.v].kind = "PermissionDenied"
        \/ /\ fsAtStart[yaml_path.v].kind = "File"
           /\ fsAtStart[yaml_path.v].doc \in InvalidDocuments)
    => /\ status = Some(1)
       /\ report = IF fsAtStart[yaml_path.v].kind = "File"
                   THEN <<"Unable to read yaml file.">>
                   ELSE <<"Unable to handle error", "PermissionDenied">>
       /\ Touched = {}
       /\ fs = fsAtStart
       /\ NothingBuilt

\* a run ended on a settings file that is not YAML
C6_Witness ==
    /\ LoadActed
    /\ fsAtStart[yaml_path.v] = File(<<BrokenLine>>)
    /\ pc = "exited"

\* the environment with every malformed variable unset
Scrubbed(ev) == [n \in EnvNames |-> IF n \in Malformed(ev) THEN Unset ELSE ev[n]]

EnvField(n) ==
    CASE n = "MAELSTROM_SERVER_ADDRESS" -> "server_addr"
      [] n = "MAELSTROM_DATABASE_ADDRESS" -> "database_addr"
      [] n = "MAELSTROM_AUTHKEY_PATH" -> "authkey_path"
      [] n = "MAELSTROM_SESSION_EXPIRATION" -> "session_expiration"
      [] n = "MAELSTROM_CONF_PATH" -> "configuration_path"

(* C7: a malformed environment value leaves its field absent in the
   environment record, raises no error, and the run goes as the run with
   those variables unset: the same environment record, the same settings
   path, the same merge result or the same fatal error. *)
C7_MalformedIsAbsent ==
    env # Unbuilt =>
        LET unset == EnvironmentConfigurationNew(Scrubbed(envVars)) IN
        /\ \A n \in Malformed(envVars) : env[EnvField(n)] = None
        /\ env = unset
        /\ pc = "layers" => (status = None /\ report = <<>>)
        /\ PathActed => yaml_path = ConfigurationPath(unset, args)
        /\ MergeActed =>
              IF Merge(unset, args, yaml).ok
              THEN layered = Merge(unset, args, yaml).v
              ELSE layered = Unbuilt /\ report = Merge(unset, args, yaml).report

\* the merge succeeded in a run whose three parsed variables are all malformed
C7_Witness ==
    /\ Malformed(envVars) = {"MAELSTROM_SERVER_ADDRESS", "MAELSTROM_DATABASE_ADDRESS",
                             "MAELSTROM_SESSION_EXPIRATION"}
    /\ pc = "layered"

(* C8: the file a run writes for the default record parses back to that
   record, value by value; a later run on the same path opens it, parses it,
   writes nothing, and hands the merge those values. *)
C8_DefaultFileRoundTrip ==
    yaml_path.some =>
        /\ SavedNow(yaml_path.v) =>
              /\ fs[yaml_path.v].kind = "File"
              /\ FromYaml(fs[yaml_path.v].doc) = [ok |-> TRUE, v |-> DefaultRecord]
        /\ (SavedBefore(yaml_path.v) /\ LoadActed) =>
              /\ yaml = DefaultRecord
              /\ SettingsOps("open", TRUE) # {}
              /\ Touched = {}

\* a second run has loaded the file the first run wrote
C8_Witness ==
    /\ run = 2
    /\ yaml_path.some
    /\ SavedBefore(yaml_path.v)
    /\ pc = "yaml"

\* the report the key loader owes each way of failing
KeyReport(fault) ==
    CASE fault = "open" -> <<"Unable to open authkey file.">>
      [] fault \in {"metadata", "read"} -> <<"Unable to read key file.">>
      [] fault = "decode" -> <<"Unable to parse supplied key.">>

\* the opens of the key file in this run
KeyOpens == {i \in DOMAIN fsLog : fsLog[i].run = run /\ fsLog[i].path \notin Paths}

(* C9: the key file is opened only after the merge has succeeded and at most
   once; every failure to load it (open, metadata, read, decode) ends the
   process with a non-zero status and the report of that failure, and no
   ServerConfiguration is built. *)
C9_KeyFailuresReported ==
    /\ KeyOpens # {} => (layered # Unbuilt /\ Cardinality(KeyOpens) = 1)
    /\ keyFault # NoFault =>
          /\ status.some /\ status.v # 0
          /\ report = KeyReport(keyFault)
          /\ config = Unbuilt

(* C10: when no file is at the resolved path, the default record is written
   there and is the file layer of the merge, or the write fails and the
   process exits with status 1 and nothing built; the file is created and
   written at most once per run, only at the resolved path, only when no file
   was there, and before the merge. *)
C10_DefaultFileCreated ==
    /\ (LoadActed /\ fsAtStart[yaml_path.v] = NotFound) =>
          \/ /\ SavedNow(yaml_path.v)
             /\ yaml = DefaultRecord
             /\ fs[yaml_path.v].kind = "File"
             /\ FromYaml(fs[yaml_path.v].doc) = [ok |-> TRUE, v |-> yaml]
          \/ /\ ~SavedNow(yaml_path.v)
             /\ status = Some(1)
             /\ report[1] = "Unable to write default yaml file. This is required!"
             /\ NothingBuilt
    /\ Cardinality(SettingsOps("write", TRUE) \cup SettingsOps("write", FALSE)) <= 1
    /\ Cardinality(SettingsOps("create", TRUE) \cup SettingsOps("create", FALSE)) <= 1
    /\ \A i \in Touched :
          /\ yaml_path = Some(fsLog[i].path)
          /\ fsAtStart[fsLog[i].path] = NotFound
    /\ (layered # Unbuilt /\ fsAtStart[yaml_path.v] = NotFound) => SavedNow(yaml_path.v)

\* the merge succeeded in a run that wrote the default file
C10_Witness ==
    /\ LoadActed
    /\ fsAtStart[yaml_path.v] = NotFound
    /\ SavedNow(yaml_path.v)
    /\ pc = "layered"

====
